---- MODULE Spec2Model ----
(***************************************************************************)
(* DaviPlata movement ledger: the editability policy (canEditMovement),    *)
(* the form-submit create/edit flow, and the verification flow, modelled   *)
(* from src/js/movements.js and the webhook helpers of the upload module.  *)
(*                                                                         *)
(* Time is counted in ticks; TicksPerMinute ticks make one minute, so      *)
(* fractional minutes (the code divides milliseconds by 60000) exist.      *)
(***************************************************************************)
EXTENDS Integers, Sequences, FiniteSets, TLC

\* ------------------------------------------------------------------------
\* Bounds of the model
\* ------------------------------------------------------------------------
TicksPerMinute == 2
MaxLen == 2          \* longest collection handed to canEditMovement
MaxId == 2           \* ids 1..MaxId in the editability specification
MaxCreated == 1      \* created_at of a collection entry, in ticks
MaxExtraMinutes == 1 \* minutes the clock runs past the edit window
MaxAdvance == 2      \* clock ticks between the first and the last evaluation
MaxMovements == 2    \* movements created through the form
MaxTicks == 1        \* clock advances in the ledger specification
MaxOps == 2          \* runs of the submit and verify handlers
MaxFailures == 1     \* collaborator calls that fail within one handler
MaxEarlier == 2      \* rows the table already holds before a single run
MaxAuthEvents == 3   \* sign-in events, sign-out events and logout clicks
MaxStatRows == 3     \* rows of a table whose statistics are computed
MaxSide == 3         \* small configured sides of the canvas, besides 1200

\* ------------------------------------------------------------------------
\* Program constants
\* ------------------------------------------------------------------------
EDIT_WINDOW_MINUTES == 30
DASHBOARD_LIMIT == 50
IMAGE_MAX_WIDTH == 1200
IMAGE_MAX_HEIGHT == 1200

\* last clock value of the editability specification
MaxNow == (EDIT_WINDOW_MINUTES + MaxExtraMinutes) * TicksPerMinute

\* null / undefined of the program; an array value is carried as Arr(s) so
\* that a null collection and an array are values of one kind.
NULL == [nil |-> TRUE]
Arr(s) == [items |-> s]
\* null of a scalar column or form field
NoValue == "null"

\* ========================================================================
\* canEditMovement (pure function of movement, collection and the clock)
\* ========================================================================

\* new Date(b.created_at) - new Date(a.created_at) : the comparator of the
\* sort; a negative value keeps a before b.
CompareCreatedDesc(a, b) == b.created_at - a.created_at

\* Insertion of x into an already sorted sequence, after every element that
\* does not compare greater (the sort is stable).
RECURSIVE InsertSorted(_, _)
InsertSorted(x, s) ==
    IF s = <<>> THEN <<x>>
    ELSE IF CompareCreatedDesc(Head(s), x) <= 0
         THEN <<Head(s)>> \o InsertSorted(x, Tail(s))
         ELSE <<x>> \o s

\* [...allMovements].sort(...) : stable sort, most recent first.
RECURSIVE SortByCreatedDesc(_)
SortByCreatedDesc(s) ==
    IF s = <<>> THEN <<>>
    ELSE InsertSorted(s[Len(s)], SortByCreatedDesc(SubSeq(s, 1, Len(s) - 1)))

\* const latestMovement = sorted[0]
LatestSkipSort(allMovements) == allMovements.items[Len(allMovements.items)]
LatestMovement(allMovements) == SortByCreatedDesc(allMovements.items)[1]

\* a comparison of the creation times in place of the ids
NotLatestByTime(movement, allMovements) ==
    movement.created_at # LatestMovement(allMovements).created_at

\* movement.id !== latestMovement.id
NotLatest(movement, allMovements) ==
    movement.id # LatestMovement(allMovements).id

\* (now - createdAt) / (1000 * 60), kept in ticks
DiffTicks(movement, now) == now - movement.created_at

\* diffMinutes > 30
WindowExpiredAtBoundary(diff) == diff >= EDIT_WINDOW_MINUTES * TicksPerMinute
WindowExpiredLate(diff) == diff > (EDIT_WINDOW_MINUTES + 1) * TicksPerMinute
WindowExpired(diff) == diff > EDIT_WINDOW_MINUTES * TicksPerMinute

\* Math.ceil(30 - diffMinutes)
RemainingFloor(diff) ==
    (EDIT_WINDOW_MINUTES * TicksPerMinute - diff) \div TicksPerMinute
RemainingElapsed(diff) ==
    -((-diff) \div TicksPerMinute)
RemainingMinutes(diff) ==
    -((-(EDIT_WINDOW_MINUTES * TicksPerMinute - diff)) \div TicksPerMinute)

\* `minuto${remainingMinutes !== 1 ? 's' : ''}`
MinuteWord(n) == IF n # 1 THEN "minutos" ELSE "minuto"

ReasonNotFound == [text |-> "Movimiento no encontrado"]
ReasonNotLatest ==
    [text |-> "Solo se puede editar el ultimo movimiento registrado"]
ReasonExpired == [text |-> "Han pasado mas de 30 minutos desde la creacion"]
\* `Puedes editar por ${remainingMinutes} minuto(s) mas`
ReasonEditable(n) ==
    [text |-> "Puedes editar por", count |-> n, unit |-> MinuteWord(n)]

\* !movement || !allMovements || allMovements.length === 0
MissingInputUpToOne(movement, allMovements) ==
    movement = NULL \/ allMovements = NULL \/ Len(allMovements.items) <= 1
MissingInput(movement, allMovements) ==
    movement = NULL \/ allMovements = NULL \/ Len(allMovements.items) = 0

canEditMovement(movement, allMovements, now) ==
    IF MissingInput(movement, allMovements)
    THEN [canEdit |-> FALSE, reason |-> ReasonNotFound]
    ELSE IF NotLatest(movement, allMovements)
    THEN [canEdit |-> FALSE, reason |-> ReasonNotLatest]
    ELSE IF WindowExpired(DiffTicks(movement, now))
    THEN [canEdit |-> FALSE, reason |-> ReasonExpired]
    ELSE [canEdit |-> TRUE,
          reason |-> ReasonEditable(RemainingMinutes(DiffTicks(movement, now)))]

VARIABLES
    ledger,        \* table daviplata_movimientos, in insertion order
    now,           \* wall clock, in ticks
    ticks,         \* clock advances so far
    AppState,      \* the AppState singleton of the browser session
    dbConfig,      \* deployment facts the client does not control
    verifySent,    \* verification webhook requests issued, per movement id
    lastOp,        \* what the last handler did
    opCount,       \* handler runs so far
    qMovement, qAll, qNow, qResult, qAt,  \* inputs/result of canEditMovement
    authTasks      \* calls of the sign-in and sign-out handlers in flight

lvars == <<ledger, now, ticks, AppState, dbConfig, verifySent, lastOp, opCount>>
qvars == <<qMovement, qAll, qNow, qResult, qAt>>
avars == <<authTasks>>
vars == <<ledger, now, ticks, AppState, dbConfig, verifySent, lastOp, opCount,
          qMovement, qAll, qNow, qResult, qAt, authTasks>>

\* ========================================================================
\* Specification SpecEdit: canEditMovement over bounded inputs
\* ========================================================================
EditEntry == [id : 1..MaxId, created_at : 0..MaxCreated]

DistinctIds(s) ==
    \A i, j \in 1..Len(s) : i # j => s[i].id # s[j].id

Collections ==
    {NULL} \cup
    {Arr(s) : s \in {t \in UNION {[1..n -> EditEntry] : n \in 0..MaxLen} :
                       DistinctIds(t)}}

Candidates(all) ==
    {NULL} \cup EditEntry

NoResult == [canEdit |-> FALSE, reason |-> [text |-> "not evaluated"]]

\* the ledger variables are not used by SpecEdit, nor the q-variables by Spec
IdleLedger ==
    /\ ledger = <<>> /\ now = 0 /\ ticks = 0 /\ AppState = <<>>
    /\ dbConfig = <<>> /\ verifySent = <<>> /\ lastOp = <<>> /\ opCount = 0
IdleQuery ==
    /\ qMovement = NULL /\ qAll = NULL /\ qNow = 0
    /\ qResult = NoResult /\ qAt = -1
IdleAuth == authTasks = <<>>

InitEdit ==
    /\ IdleLedger
    /\ IdleAuth
    /\ qAll \in Collections
    /\ qMovement \in Candidates(qAll)
    /\ qNow \in 0..MaxNow
    /\ qResult = NoResult
    /\ qAt = -1

\* renderMovements / showMovementDetail / openEditMovementModal evaluate the
\* policy against the wall clock.
Evaluate ==
    /\ qResult' = canEditMovement(qMovement, qAll, qNow)
    /\ qAt' = qNow
    /\ UNCHANGED <<qMovement, qAll, qNow>>
    /\ UNCHANGED lvars
    /\ UNCHANGED avars

\* The wall clock advances.
ClockTick ==
    /\ qNow < MaxNow
    /\ ticks < MaxAdvance
    /\ qNow' = qNow + 1
    /\ ticks' = ticks + 1
    /\ UNCHANGED <<qMovement, qAll, qResult, qAt>>
    /\ UNCHANGED <<ledger, now, AppState, dbConfig, verifySent, lastOp, opCount>>
    /\ UNCHANGED avars

NextEdit == Evaluate \/ ClockTick

SpecEdit == InitEdit /\ [][NextEdit]_vars

\* ========================================================================
\* The ledger: database table, the browser session, handlers
\* ========================================================================
Users == {"admin", "user"}

\* row of daviplata_usuarios of a user (getCurrentUserProfile)
Profile(u) == [id |-> u, rol |-> IF u = "admin" THEN "admin" ELSE "user"]

Count(b) == IF b THEN 0 ELSE 1

FormTipos == {NoValue, "INGRESO", "EGRESO"}
\* text of the amount input, and what parseFloat makes of it: a number (here
\* in thousandths), or NaN for text that does not start with one
FormMontos == {"", "abc", "0", "-1", "0.001", "2"}

NaN == [nan |-> TRUE, value |-> 0]
Num(n) == [nan |-> FALSE, value |-> n]

parseFloat(text) ==
    CASE text = "2" -> Num(2000)
      [] text = "0.001" -> Num(1)
      [] text = "0" -> Num(0)
      [] text = "-1" -> Num(-1000)
      [] OTHER -> NaN

\* a validation that lets every amount through
InvalidMontoNever(monto) == FALSE

\* !monto || monto <= 0
InvalidMonto(monto) == monto.nan \/ monto.value = 0 \/ monto.value <= 0
\* text of the reason input, and what String.trim makes of it
FormMotivos == {"", " ", "b"}

Trim(text) == IF text = " " THEN "" ELSE text
HookOutcomes == {"failed", "ok", "okIds"}

\* what the user left in the form: at most one field is invalid
FormInputs ==
    {f \in [tipo : FormTipos, monto : FormMontos, motivo : FormMotivos] :
        Count(f.tipo # NoValue) + Count(~InvalidMonto(parseFloat(f.monto)))
            + Count(Trim(f.motivo) # "")
            <= 1}

\* outcome of the collaborator calls of one run of handleFormSubmit: receipt
\* upload, getMovementById and the retraction webhook of the edit branch,
\* insert/update, the answer to an update that names no column, and the
\* movement webhook (failed, answered, answered with identifiers)
SubmitOutcomes ==
    {o \in [uploadOk : BOOLEAN, readOk : BOOLEAN, delOk : BOOLEAN,
            dbOk : BOOLEAN, emptyOk : {TRUE}, hook : HookOutcomes] :
        Count(o.uploadOk) + Count(o.readOk) + Count(o.delOk) + Count(o.dbOk)
            + Count(o.hook # "failed") <= MaxFailures}

\* outcome of the collaborator calls of one run of handleVerifyMovement:
\* getMovementById, the update, the answer of the API server to an
\* update that names no column (the row or an error; the table is untouched
\* either way), and the verification webhook
VerifyOutcomes ==
    {o \in [readOk : BOOLEAN, dbOk : BOOLEAN, emptyOk : BOOLEAN,
            hookOk : BOOLEAN] :
        Count(o.readOk) + Count(o.dbOk) + Count(o.hookOk) <= MaxFailures}

Min(a, b) == IF a < b THEN a ELSE b

IsSortedDesc(rows) ==
    \A i, j \in 1..Len(rows) : i < j => rows[i].created_at >= rows[j].created_at

\* the columns of a fetched row that the handlers read from
\* AppState.movements
Listed(row) == [id |-> row.id, usuario_id |-> row.usuario_id,
                created_at |-> row.created_at, verified |-> row.verified]

\* getMovements({limit: 50}): every row (the select policy is USING (true)),
\* ORDER BY created_at DESC with ties in any order, LIMIT 50.
GetMovementsResults(table) ==
    {SubSeq(r, 1, Min(DASHBOARD_LIMIT, Len(r))) :
        r \in {t \in [1..Len(table) -> {Listed(table[i]) : i \in 1..Len(table)}] :
                  /\ \A i, j \in 1..Len(t) : i # j => t[i] # t[j]
                  /\ IsSortedDesc(t)}}

\* getMovementById: the row, or null on error
getMovementById(table, id, readOk) ==
    IF readOk /\ id \in 1..Len(table) THEN table[id] ELSE NULL

\* AppState.movements.find(m => m.id === id)
FindMovement(movements, id) ==
    IF \E i \in 1..Len(movements) : movements[i].id = id
    THEN movements[CHOOSE i \in 1..Len(movements) :
                     /\ movements[i].id = id
                     /\ \A j \in 1..(i - 1) : movements[j].id # id]
    ELSE NULL

\* the whitelist, had it let the verification state through
UpdatableColumnsWithVerified ==
    {"monto", "motivo", "comprobante_url", "verified"}

\* updateMovement: the whitelist of lines 178-181
UpdatableColumns == {"monto", "motivo", "comprobante_url"}

\* the update as handed in, without the whitelist
AllowedUpdatesAll(updates) == updates

AllowedUpdates(updates) ==
    [f \in (DOMAIN updates) \cap UpdatableColumns |-> updates[f]]

\* policy movimientos_update_authenticated, for the signed-in user u
RlsUpdate(u, row) == row.usuario_id = Profile(u).id

\* column monto DECIMAL(12,2): a number in thousandths is stored in
\* hundredths, rounded half away from zero
Decimal2(n) == IF n >= 0 THEN (n + 5) \div 10 ELSE 0 - ((5 - n) \div 10)

\* CHECK (monto > 0) of the table
CheckMonto(monto) == monto > 0

\* an UPDATE that also rewrites the kind of the row
ApplyUpdateRetyping(row, allowed, at) ==
    [f \in DOMAIN row |->
        IF f \in DOMAIN allowed THEN allowed[f]
        ELSE IF f = "tipo" THEN "EGRESO"
        ELSE row[f]]

\* the UPDATE, with the BEFORE UPDATE trigger update_daviplata_updated_at
ApplyUpdate(row, allowed, at) ==
    [f \in DOMAIN row |->
        IF f \in DOMAIN allowed
        THEN IF f = "monto" THEN Decimal2(allowed[f]) ELSE allowed[f]
        ELSE IF f = "updated_at" THEN at
        ELSE row[f]]

\* an update carried out as a removal of the row and an insert of its
\* successor under the updater's name
updateMovementReplacing(table, u, id, updates, dbOk, emptyOk, at) ==
    LET allowed == AllowedUpdates(updates) IN
    IF ~dbOk \/ id \notin 1..Len(table) \/ DOMAIN allowed = {}
    THEN [data |-> NULL, table |-> table]
    ELSE LET row == [ApplyUpdate(table[id], allowed, at) EXCEPT
                       !.id = Len(table) + 1, !.usuario_id = Profile(u).id]
         IN [data |-> row,
             table |-> [i \in 1..Len(table) |->
                          IF i < id THEN table[i]
                          ELSE IF i < Len(table) THEN table[i + 1]
                          ELSE row]]

\* updateMovement(id, updates): .update(allowedUpdates).eq('id', id)
\* .select().single().  data is the updated row, or null on error.  An
\* update without columns changes no row; whether it still answers with the
\* row depends on the API server (emptyOk).
updateMovement(table, u, id, updates, dbOk, emptyOk, at) ==
    LET allowed == AllowedUpdates(updates) IN
    IF ~dbOk \/ id \notin 1..Len(table)
    THEN [data |-> NULL, table |-> table]
    ELSE IF DOMAIN allowed = {}
    THEN [data |-> IF emptyOk THEN table[id] ELSE NULL, table |-> table]
    ELSE IF ~RlsUpdate(u, table[id])
    THEN [data |-> NULL, table |-> table]
    ELSE LET row == ApplyUpdate(table[id], allowed, at) IN
         IF ~CheckMonto(row.monto)
         THEN [data |-> NULL, table |-> table]
         ELSE [data |-> row, table |-> [table EXCEPT ![id] = row]]

\* const verified = AppState.isAdmin ? 'VERIFICADO' : 'PENDIENTE'
VerifiedFor(isAdmin) == IF isAdmin THEN "VERIFICADO" ELSE "PENDIENTE"

\* the row the insert of createMovement stores: the insert lists usuario_id,
\* tipo, monto, motivo, comprobante_url and fecha; every other column takes
\* its default.
InsertedRow(table, usuarioId, movement, at) ==
    [id |-> Len(table) + 1, usuario_id |-> usuarioId, tipo |-> movement.tipo,
     monto |-> Decimal2(movement.monto), motivo |-> movement.motivo,
     comprobante_url |-> movement.comprobante_url,
     created_at |-> at, updated_at |-> at,
     verified |-> dbConfig.verifiedDefault,
     idmessage |-> NoValue, remote_jid |-> NoValue]

\* the validations without the role check of expenses
FormBlockedWithoutRole(st, tipo, monto, motivo) ==
    \/ tipo = NoValue
    \/ InvalidMonto(monto)
    \/ motivo = ""

\* the validations of handleFormSubmit (lines 921-940)
FormBlocked(st, tipo, monto, motivo) ==
    \/ tipo = NoValue
    \/ (tipo = "EGRESO" /\ ~st.isAdmin)
    \/ InvalidMonto(monto)
    \/ motivo = ""

\* uploadToWebhook: the public URL of a uniquely named object
UploadUrls == <<"url1", "url2", "url3", "url4", "url5">>

\* identifiers a successful movement webhook answers with (result.id,
\* result.remoteJid), and those an earlier notification left on a row
HookMessageId == "msg"
HookRemoteJid == "jid"
EarlierMessageId == "msg0"
EarlierRemoteJid == "jid0"

\* one entry of the record of a handler run: a collaborator call and whether
\* it succeeded, or a toast shown to the user
Done(ok) == IF ok THEN "ok" ELSE "failed"
Call(name, outcome) == [call |-> name, outcome |-> outcome]
Toast(kind) == [call |-> "showToast", outcome |-> kind]

\* a notification that posts again when its request fails
notifyMovementWebhookRetrying(table, u, movement, hook, at) ==
    IF hook = "failed"
    THEN [table |-> table,
          effects |-> <<Call("movementHook", "failed"),
                        Call("movementHook", "failed")>>]
    ELSE [table |-> table, effects |-> <<Call("movementHook", "ok")>>]

\* notifyMovementWebhook(movement): statistics, POST, and on an answer that
\* carries an id the write-back through updateMovement, whose answer is
\* discarded.  Never throws.
notifyMovementWebhook(table, u, movement, hook, at) ==
    IF hook = "okIds"
    THEN [table |-> updateMovement(table, u, movement.id,
                                   [idmessage |-> HookMessageId,
                                    remote_jid |-> HookRemoteJid],
                                   TRUE, TRUE, at).table,
          effects |-> <<Call("movementHook", "ok"), Call("writeBack", "ok")>>]
    ELSE [table |-> table,
          effects |-> <<Call("movementHook", Done(hook = "ok"))>>]

\* notifyDeletionWebhook(movement): the POST requests it issues; none without
\* both references.  Never throws.
notifyDeletionWebhook(movement, delOk) ==
    IF movement.idmessage = NoValue \/ movement.remote_jid = NoValue
    THEN <<>>
    ELSE <<Call("deletionHook", Done(delOk))>>

\* a retraction that lets the failure of its request escape
DeletionThrowsOnFailure(requests) ==
    \E i \in 1..Len(requests) : requests[i].outcome = "failed"

\* whether notifyDeletionWebhook ends with an exception: its body is one
\* try block whose catch only logs
DeletionThrows(requests) == FALSE

\* notifyVerificationWebhook(movement): the number of POST requests it
\* issues; none without both references
notifyVerificationWebhook(movement) ==
    IF movement.idmessage = NoValue \/ movement.remote_jid = NoValue
    THEN 0
    ELSE 1

\* closeModal()
closeModal(st) ==
    [st EXCEPT !.editingMovementId = 0, !.selectedFile = NoValue]

\* record of a handler run: which handler, on which movement, how it ended,
\* the verification requests it issued, the privilege of the session that
\* ran it, whether the page offered the control that starts it, the calls
\* it made in order, and the type option, the amount and the reason of the
\* form it read
Op(op, st, id, result, sent, offered, effects) ==
    [op |-> op, id |-> id, result |-> result, sent |-> sent,
     admin |-> st.isAdmin, offered |-> offered, effects |-> effects,
     tipo |-> NoValue, monto |-> NaN, motivo |-> ""]

NoOp == [op |-> "none", id |-> 0, result |-> "none", sent |-> 0,
         admin |-> FALSE, offered |-> FALSE, effects |-> <<>>,
         tipo |-> NoValue, monto |-> NaN, motivo |-> ""]

\* AppState of a session of user u right after sign-in
SignedIn(u, movements) ==
    [movements |-> movements,
     isAdmin |-> Profile(u).rol = "admin",
     userProfile |-> Profile(u),
     editingMovementId |-> 0,
     selectedFile |-> NoValue]

\* the session of the other user, on another device: a fresh form
OtherUser == CHOOSE u \in Users : u # AppState.userProfile.id
OtherState == SignedIn(OtherUser, <<>>)

\* ------------------------------------------------------------------------
\* Init: the session is signed in and its dashboard loaded; the table holds
\* one earlier movement.  The columns verified, idmessage and
\* remote_jid are read by the client but written only outside it (column
\* default, the messaging automation), so an earlier row carries any of
\* their values; dbConfig.verifiedDefault is the DEFAULT of the column
\* verified, which the schema file does not declare.
\* ------------------------------------------------------------------------
EarlierRows ==
    {[id |-> 1, usuario_id |-> Profile(o).id, tipo |-> "INGRESO", monto |-> 1,
      motivo |-> "a", comprobante_url |-> NoValue,
      created_at |-> 0, updated_at |-> 0,
      verified |-> v, idmessage |-> EarlierMessageId,
      remote_jid |-> EarlierRemoteJid] :
        o \in {"user"}, v \in {"PENDIENTE", "VERIFICADO"}}

Init ==
    /\ IdleQuery
    /\ IdleAuth
    /\ ledger \in {<<r>> : r \in EarlierRows}
    /\ now = 0
    /\ ticks = 0
    /\ \E u \in Users :
          AppState = SignedIn(u, [i \in 1..Len(ledger) |-> Listed(ledger[i])])
    /\ dbConfig \in [verifiedDefault : {"PENDIENTE", "VERIFICADO"}]
    /\ verifySent = [i \in 1..MaxMovements |-> 0]
    /\ lastOp = NoOp
    /\ opCount = 0

\* ------------------------------------------------------------------------
\* Actions
\* ------------------------------------------------------------------------
ClockSteps == {1, EDIT_WINDOW_MINUTES * TicksPerMinute + 1}

\* A behaviour is explored up to MaxOps handler runs, and not beyond a run
\* that was refused or in which a collaborator call failed: such a run is the
\* last of its behaviour.
Continues ==
    /\ opCount < MaxOps
    /\ lastOp.result \in {"none", "ok"}
    /\ \A i \in 1..Len(lastOp.effects) : lastOp.effects[i].outcome # "failed"

\* time passes
Tick ==
    /\ Continues
    /\ ticks < MaxTicks
    /\ \E d \in ClockSteps : now' = now + d
    /\ ticks' = ticks + 1
    /\ UNCHANGED <<ledger, AppState, dbConfig, verifySent, lastOp, opCount>>
    /\ UNCHANGED qvars
    /\ UNCHANGED avars

\* loadDashboard(): AppState.movements = await getMovements({limit: 50})
LoadDashboard ==
    /\ Continues
    /\ \E res \in GetMovementsResults(ledger) :
          AppState' = [AppState EXCEPT !.movements = res]
    /\ UNCHANGED <<ledger, now, ticks, dbConfig, verifySent, lastOp, opCount>>
    /\ UNCHANGED qvars
    /\ UNCHANGED avars

\* openNewMovementModal(tipo)
OpenNewMovementModal ==
    /\ Continues
    /\ AppState' = [AppState EXCEPT !.editingMovementId = 0,
                                    !.selectedFile = NoValue]
    /\ UNCHANGED <<ledger, now, ticks, dbConfig, verifySent, lastOp, opCount>>
    /\ UNCHANGED qvars
    /\ UNCHANGED avars

\* handleEditMovement(id) -> openEditMovementModal(movement)
OpenEditMovementModal ==
    /\ Continues
    /\ \E i \in 1..Len(AppState.movements) :
          LET movement == AppState.movements[i]
              editCheck == canEditMovement(movement, Arr(AppState.movements),
                                           now)
          IN IF ~editCheck.canEdit
             THEN UNCHANGED AppState
             ELSE AppState' = [AppState EXCEPT
                                 !.editingMovementId = movement.id,
                                 !.selectedFile = NoValue]
    /\ UNCHANGED <<ledger, now, ticks, dbConfig, verifySent, lastOp, opCount>>
    /\ UNCHANGED qvars
    /\ UNCHANGED avars

\* handleFileSelect(event) with an image file
HandleFileSelect ==
    /\ Continues
    /\ AppState' = [AppState EXCEPT !.selectedFile = "file"]
    /\ UNCHANGED <<ledger, now, ticks, dbConfig, verifySent, lastOp, opCount>>
    /\ UNCHANGED qvars
    /\ UNCHANGED avars

\* closeModal() from the close button or the overlay
CloseModal ==
    /\ Continues
    /\ AppState' = closeModal(AppState)
    /\ UNCHANGED <<ledger, now, ticks, dbConfig, verifySent, lastOp, opCount>>
    /\ UNCHANGED qvars
    /\ UNCHANGED avars

\* a call that is started and not waited for: what follows it is issued
\* first
NotAwaited(call, following) == following \o call

\* await call; following: the call has finished, one way or the other,
\* before what follows is issued
Awaited(call, following) == call \o following

\* an edit that always writes the receipt column, with null when no file
\* was uploaded
EditUpdatesAlways(monto, motivo, verified, comprobanteUrl) ==
    [monto |-> monto, motivo |-> motivo, verified |-> verified,
     comprobante_url |-> comprobanteUrl]

\* const updates = { monto, motivo, verified };
\* if (comprobanteUrl) updates.comprobante_url = comprobanteUrl;
EditUpdates(monto, motivo, verified, comprobanteUrl) ==
    IF comprobanteUrl # NoValue
    THEN [monto |-> monto, motivo |-> motivo, verified |-> verified,
          comprobante_url |-> comprobanteUrl]
    ELSE [monto |-> monto, motivo |-> motivo, verified |-> verified]

\* the edit branch of handleFormSubmit (lines 959-986), after the upload:
\* the table it leaves and the record of the run.
\*   1. getMovementById                    2. notifyDeletionWebhook(old)
\*   3. updateMovement                     4. notifyMovementWebhook(updated)
EditFlow(st, monto, motivo, comprobanteUrl, o, uploaded) ==
    LET id == st.editingMovementId
        u == st.userProfile.id
        verified == VerifiedFor(st.isAdmin)
        oldMovement == getMovementById(ledger, id, o.readOk)
        read == <<Call("getMovementById", Done(oldMovement # NULL))>>
        retraction == IF oldMovement # NULL /\ oldMovement.idmessage # NoValue
                      THEN notifyDeletionWebhook(oldMovement, o.delOk)
                      ELSE <<>>
        updates == EditUpdates(monto, motivo, verified, comprobanteUrl)
        upd == updateMovement(ledger, u, id, updates, o.dbOk, o.emptyOk, now)
        sofar == uploaded \o read
                   \o Awaited(retraction,
                              <<Call("updateMovement", Done(upd.data # NULL))>>)
    IN IF DeletionThrows(retraction)
       THEN [table |-> ledger,
             op |-> Op("edit", st, id, "failed", 0, TRUE,
                       uploaded \o read \o retraction \o <<Toast("error")>>)]
       ELSE IF upd.data = NULL
       THEN [table |-> upd.table,
             op |-> Op("edit", st, id, "failed", 0, TRUE,
                       sofar \o <<Toast("error")>>)]
       ELSE LET hook == notifyMovementWebhook(upd.table, u, upd.data, o.hook,
                                              now)
            IN [table |-> hook.table,
                op |-> Op("edit", st, id, "ok", 0, TRUE,
                          sofar \o hook.effects \o <<Toast("success")>>)]

\* createMovement(movement, usuarioId), which notifies the webhook itself,
\* and the create branch (lines 988-1002)
CreateFlow(st, tipo, monto, motivo, comprobanteUrl, o, uploaded) ==
    LET u == st.userProfile.id
        verified == VerifiedFor(st.isAdmin)
        movement == [tipo |-> tipo, monto |-> monto, motivo |-> motivo,
                     comprobante_url |-> comprobanteUrl, verified |-> verified]
        data == InsertedRow(ledger, u, movement, now)
    IN IF ~o.dbOk \/ ~CheckMonto(data.monto)
       THEN [table |-> ledger,
             op |-> Op("create", st, 0, "failed", 0, TRUE,
                       uploaded \o <<Call("insert", "failed"),
                                     Toast("error")>>)]
       ELSE LET hook == notifyMovementWebhook(Append(ledger, data), u, data,
                                              o.hook, now)
            IN [table |-> hook.table,
                op |-> Op("create", st, data.id, "ok", 0, TRUE,
                          uploaded \o <<Call("insert", "ok")>>
                              \o hook.effects
                              \o <<Toast(IF verified = "PENDIENTE"
                                         THEN "success-pendiente"
                                         ELSE "success")>>)]

\* an upload whose failure is not passed on
UploadThrowsNever(uploadOk) == FALSE

\* uploadToSupabaseStorage rethrows the storage error (lines 154-157 and
\* 168-171 of the upload module)
UploadThrows(uploadOk) == ~uploadOk

\* handleFormSubmit up to its final reload
SubmitOutcome(st, tipo, monto, motivo, o) ==
    LET isEditing == st.editingMovementId # 0
        hasFile == st.selectedFile # NoValue
        comprobanteUrl == IF hasFile THEN UploadUrls[opCount + 1] ELSE NoValue
        uploaded == IF hasFile
                    THEN <<Call("upload", Done(o.uploadOk))>>
                    ELSE <<>>
        run == IF FormBlocked(st, tipo, monto, motivo)
               THEN [table |-> ledger,
                     op |-> Op("submit", st, st.editingMovementId, "blocked",
                               0, TRUE, <<Toast("error")>>)]
               ELSE IF hasFile /\ UploadThrows(o.uploadOk)
               THEN [table |-> ledger,
                     op |-> Op(IF isEditing THEN "edit" ELSE "create", st,
                               st.editingMovementId, "failed", 0, TRUE,
                               uploaded \o <<Toast("error")>>)]
               ELSE IF isEditing
               THEN EditFlow(st, monto.value, motivo, comprobanteUrl, o,
                             uploaded)
               ELSE CreateFlow(st, tipo, monto.value, motivo, comprobanteUrl,
                               o, uploaded)
    IN [table |-> run.table,
        op |-> [run.op EXCEPT !.tipo = tipo, !.monto = monto,
                              !.motivo = motivo]]

\* the runs of handleFormSubmit with these inputs, over every outcome of the
\* calls they make
SubmitRuns(st, tipo, monto, motivo) ==
    {SubmitOutcome(st, tipo, monto, motivo, o) : o \in SubmitOutcomes}

\* handleFormSubmit(event): the submit handler of the movement form, with
\* the form's inputs and the outcome of each collaborator call; on success
\* it closes the modal and reloads the dashboard.
HandleFormSubmit ==
    /\ Continues
    /\ \E f \in FormInputs :
       \E out \in SubmitRuns(AppState, f.tipo, parseFloat(f.monto),
                               Trim(f.motivo)) :
             /\ Len(out.table) <= MaxMovements
             /\ ledger' = out.table
             /\ lastOp' = out.op
             /\ IF out.op.result = "ok"
                THEN \E res \in GetMovementsResults(out.table) :
                        AppState' = [closeModal(AppState) EXCEPT
                                       !.movements = res]
                ELSE UNCHANGED AppState
    /\ opCount' = opCount + 1
    /\ UNCHANGED <<now, ticks, dbConfig, verifySent>>
    /\ UNCHANGED qvars
    /\ UNCHANGED avars

\* the same handler in the session of the other user, who records an income
\* from a fresh form
OtherSessionCreates ==
    /\ Continues
    /\ \E out \in SubmitRuns(OtherState, "INGRESO", parseFloat("2"), "b") :
             /\ out.op.result = "ok"
             /\ Len(out.table) <= MaxMovements
             /\ ledger' = out.table
             /\ lastOp' = out.op
    /\ opCount' = opCount + 1
    /\ UNCHANGED <<now, ticks, AppState, dbConfig, verifySent>>
    /\ UNCHANGED qvars
    /\ UNCHANGED avars

\* the test of the retraction step of the edit branch, which looks at the
\* message identifier alone
CanNotifyWithMessageId(movement) == movement.idmessage # NoValue

\* latestMovement.idmessage && latestMovement.remote_jid (line 1167)
CanNotify(movement) ==
    movement.idmessage # NoValue /\ movement.remote_jid # NoValue

\* handleVerifyMovement(id) up to its final reload: the table and the
\* record of the run
VerifyOutcome(st, id, confirmed, o, offered) ==
    LET movement == FindMovement(st.movements, id)
        latestMovement == getMovementById(ledger, id, o.readOk)
        success == updateMovement(ledger, st.userProfile.id, id,
                                  [verified |-> "VERIFICADO"],
                                  o.dbOk, o.emptyOk, now)
        read == <<Call("getMovementById", Done(latestMovement # NULL))>>
    IN IF movement = NULL
       THEN [table |-> ledger,
             op |-> Op("verify", st, id, "notfound", 0, offered, <<>>)]
       ELSE IF ~confirmed
       THEN [table |-> ledger,
             op |-> Op("verify", st, id, "cancelled", 0, offered, <<>>)]
       ELSE IF latestMovement = NULL
       THEN [table |-> ledger,
             op |-> Op("verify", st, id, "failed", 0, offered,
                       read \o <<Toast("error")>>)]
       ELSE IF success.data = NULL
       THEN [table |-> success.table,
             op |-> Op("verify", st, id, "failed", 0, offered,
                       read \o <<Call("updateMovement", "failed"),
                                 Toast("error")>>)]
       ELSE IF CanNotify(latestMovement)
       THEN [table |-> success.table,
             op |-> Op("verify", st, id, "ok",
                       notifyVerificationWebhook(latestMovement), offered,
                       read \o <<Call("updateMovement", "ok")>>
                            \o [i \in 1..notifyVerificationWebhook(
                                           latestMovement) |->
                                   Call("verificationHook", Done(o.hookOk))]
                            \o <<Toast("success")>>)]
       ELSE [table |-> success.table,
             op |-> Op("verify", st, id, "ok", 0, offered,
                       read \o <<Call("updateMovement", "ok"),
                                 Toast("warning-sin-notificacion"),
                                 Toast("success")>>)]

\* showMovementDetail renders the verify button:  AppState.isAdmin && isPending
VerifyOffered(st, id) ==
    LET movement == FindMovement(st.movements, id) IN
    /\ movement # NULL
    /\ st.isAdmin
    /\ movement.verified = "PENDIENTE"

\* the runs of handleVerifyMovement(id), over the answer to the confirmation
\* dialog and every outcome of the calls they make
VerifyRuns(st, id) ==
    {VerifyOutcome(st, id, confirmed, o, VerifyOffered(st, id)) :
        confirmed \in BOOLEAN, o \in VerifyOutcomes}

\* handleVerifyMovement(id): a global function, reached from the verify
\* button when it is rendered, or called directly.
HandleVerifyMovement ==
    /\ Continues
    /\ \E id \in 1..MaxMovements :
       \E out \in VerifyRuns(AppState, id) :
             /\ ledger' = out.table
             /\ lastOp' = out.op
             /\ verifySent' = [verifySent EXCEPT ![id] = @ + out.op.sent]
             /\ IF out.op.result = "ok"
                THEN \E res \in GetMovementsResults(out.table) :
                        AppState' = [AppState EXCEPT !.movements = res]
                ELSE UNCHANGED AppState
    /\ opCount' = opCount + 1
    /\ UNCHANGED <<now, ticks, dbConfig>>
    /\ UNCHANGED qvars
    /\ UNCHANGED avars

Next ==
    \/ Tick
    \/ LoadDashboard
    \/ OpenNewMovementModal
    \/ OpenEditMovementModal
    \/ HandleFileSelect
    \/ CloseModal
    \/ HandleFormSubmit
    \/ OtherSessionCreates
    \/ HandleVerifyMovement

Spec == Init /\ [][Next]_vars

\* ------------------------------------------------------------------------
\* One handler run from any table: the table already holds up to MaxEarlier
\* movements, inserted one tick apart, and the session runs one handler.
\* One row takes every owner, verification state and combination of
\* references; the rows around it are pending movements of the plain user
\* that were notified and carry a receipt.
\* ------------------------------------------------------------------------
EarlierReceipt == "url0"

References ==
    {<<EarlierMessageId, EarlierRemoteJid>>, <<NoValue, NoValue>>,
     <<EarlierMessageId, NoValue>>, <<NoValue, EarlierRemoteJid>>}

StoredRow(i, o, v, refs) ==
    [id |-> i, usuario_id |-> Profile(o).id, tipo |-> "INGRESO", monto |-> 1,
     motivo |-> "a", comprobante_url |-> NoValue,
     created_at |-> i - 1, updated_at |-> i - 1,
     verified |-> v, idmessage |-> refs[1], remote_jid |-> refs[2]]

StoredTables ==
    UNION {{[i \in 1..n |->
                IF i = k
                THEN StoredRow(i, o, v, refs)
                ELSE [StoredRow(i, "user", "PENDIENTE",
                                <<EarlierMessageId, EarlierRemoteJid>>)
                        EXCEPT !.comprobante_url = EarlierReceipt]] :
               k \in 1..n, o \in Users, v \in {"PENDIENTE", "VERIFICADO"},
               refs \in References} :
           n \in 1..MaxEarlier}

InitRun ==
    /\ IdleQuery
    /\ IdleAuth
    /\ ledger \in StoredTables
    /\ now = Len(ledger) - 1
    /\ ticks = 0
    /\ \E u \in Users :
       \E res \in GetMovementsResults(ledger) :
          AppState = SignedIn(u, res)
    /\ dbConfig \in [verifiedDefault : {"PENDIENTE", "VERIFICADO"}]
    /\ verifySent = [i \in 1..MaxMovements |-> 0]
    /\ lastOp = NoOp
    /\ opCount = MaxOps - 1

SpecRun == InitRun /\ [][Next]_vars

\* ========================================================================
\* Specification SpecAuth: the authentication fields of AppState under the
\* auth events of the client library and the logout button.  Each handler
\* runs up to its first await in one step; what follows the await is a task
\* in flight, which completes in a later step, in any order.
\* ========================================================================
Session(u) == [user |-> u]

\* showLoginScreen()
showLoginScreen(st) ==
    [st EXCEPT !.session = NULL, !.user = NoValue, !.userProfile = NULL,
               !.isAdmin = FALSE]

InitAuth ==
    /\ IdleQuery
    /\ IdleAuth
    /\ ledger = <<>> /\ now = 0 /\ ticks = 0
    /\ dbConfig = <<>> /\ verifySent = <<>> /\ lastOp = <<>> /\ opCount = 0
    /\ AppState = [session |-> NULL, user |-> NoValue, userProfile |-> NULL,
                   isAdmin |-> FALSE]

WithoutTask(i) ==
    [j \in 1..(Len(authTasks) - 1) |->
        IF j < i THEN authTasks[j] ELSE authTasks[j + 1]]

\* handleAuthSuccess(session) up to await getCurrentUserProfile(): called
\* at page load for an existing session and by the SIGNED_IN callback
AuthSignedIn ==
    /\ opCount < MaxAuthEvents
    /\ \E u \in Users :
          /\ AppState' = [AppState EXCEPT !.session = Session(u), !.user = u]
          /\ authTasks' = Append(authTasks,
                                 [task |-> "handleAuthSuccess", user |-> u])
    /\ opCount' = opCount + 1
    /\ UNCHANGED <<ledger, now, ticks, dbConfig, verifySent, lastOp>>
    /\ UNCHANGED qvars

\* handleAuthSuccess after the await: the profile of the user whose request
\* it was, or null when the request failed
ProfileFetched ==
    /\ \E i \in {j \in 1..Len(authTasks) :
                    authTasks[j].task = "handleAuthSuccess"} :
       \E profile \in {Profile(authTasks[i].user), NULL} :
          /\ AppState' = IF profile # NULL
                         THEN [AppState EXCEPT
                                 !.userProfile = profile,
                                 !.isAdmin = (profile.rol = "admin")]
                         ELSE AppState
          /\ authTasks' = WithoutTask(i)
    /\ UNCHANGED <<ledger, now, ticks, dbConfig, verifySent, lastOp, opCount>>
    /\ UNCHANGED qvars

\* the SIGNED_OUT callback: showLoginScreen()
AuthSignedOut ==
    /\ opCount < MaxAuthEvents
    /\ AppState' = showLoginScreen(AppState)
    /\ opCount' = opCount + 1
    /\ UNCHANGED <<ledger, now, ticks, dbConfig, verifySent, lastOp>>
    /\ UNCHANGED qvars
    /\ UNCHANGED avars

\* handleLogout() up to await signOut()
HandleLogout ==
    /\ opCount < MaxAuthEvents
    /\ authTasks' = Append(authTasks,
                           [task |-> "handleLogout", user |-> NoValue])
    /\ opCount' = opCount + 1
    /\ UNCHANGED <<ledger, now, ticks, AppState, dbConfig, verifySent, lastOp>>
    /\ UNCHANGED qvars

\* handleLogout() after the await: showLoginScreen()
LogoutDone ==
    /\ \E i \in {j \in 1..Len(authTasks) :
                    authTasks[j].task = "handleLogout"} :
          authTasks' = WithoutTask(i)
    /\ AppState' = showLoginScreen(AppState)
    /\ UNCHANGED <<ledger, now, ticks, dbConfig, verifySent, lastOp, opCount>>
    /\ UNCHANGED qvars

NextAuth ==
    \/ AuthSignedIn
    \/ ProfileFetched
    \/ AuthSignedOut
    \/ HandleLogout
    \/ LogoutDone

SpecAuth == InitAuth /\ [][NextAuth]_vars

\* ========================================================================
\* Specification SpecStats: getStatistics over a table of movements.
\*
\* JavaScript numbers are IEEE 754 binary64.  A finite number is modelled as
\* (-1)^neg * sig * 2^exp, where sig is a sequence of Precision bits, most
\* significant first, with leading bit 1; zero has the empty sig.  Sums are
\* computed exactly on bit sequences and rounded to nearest, ties to even.
\* ========================================================================
Precision == 53
FractionBits == 62   \* binary places computed of a decimal before rounding

Zeros(n) == [i \in 1..n |-> 0]
Float(neg, sig, exp) == [neg |-> neg, sig |-> sig, exp |-> exp]
FloatZero == Float(FALSE, <<>>, 0)

StripZeros(bits) ==
    LET ones == {i \in 1..Len(bits) : bits[i] = 1}
    IN IF ones = {} THEN <<>>
       ELSE SubSeq(bits, CHOOSE i \in ones : \A j \in ones : i <= j,
                   Len(bits))

\* bits + 1; one bit longer when every bit is 1
Increment(bits) ==
    LET zeros == {i \in 1..Len(bits) : bits[i] = 0}
    IN IF zeros = {} THEN <<1>> \o Zeros(Len(bits))
       ELSE LET z == CHOOSE i \in zeros : \A j \in zeros : j <= i
            IN [i \in 1..Len(bits) |->
                  IF i < z THEN bits[i] ELSE IF i = z THEN 1 ELSE 0]

\* the binary64 nearest to bits * 2^exp (plus a nonzero remainder below the
\* last bit when sticky), ties to even
RoundToNearestEven(neg, bits, sticky, exp) ==
    LET b == StripZeros(bits)
        n == Len(b)
    IN IF n = 0 THEN FloatZero
       ELSE IF n <= Precision
       THEN Float(neg, b \o Zeros(Precision - n), exp - (Precision - n))
       ELSE LET keep == SubSeq(b, 1, Precision)
                rest == sticky \/ \E i \in (Precision + 2)..n : b[i] = 1
                up == b[Precision + 1] = 1 /\ (rest \/ keep[Precision] = 1)
                e == exp + (n - Precision)
                inc == Increment(keep)
            IN IF ~up THEN Float(neg, keep, e)
               ELSE IF Len(inc) = Precision THEN Float(neg, inc, e)
               ELSE Float(neg, SubSeq(inc, 1, Precision), e + 1)

RECURSIVE ToBits(_)
ToBits(n) == IF n = 0 THEN <<>> ELSE Append(ToBits(n \div 2), n % 2)

\* 2^k modulo d, by repeated squaring
RECURSIVE PowerOfTwoMod(_, _)
PowerOfTwoMod(k, d) ==
    IF k = 0 THEN 1 % d
    ELSE LET h == PowerOfTwoMod(k \div 2, d)
         IN (h * h * (IF k % 2 = 1 THEN 2 ELSE 1)) % d

\* long division of n * 2^places by a small divisor d: the bits of the
\* quotient and the remainder.  The remainder left after the first i bits
\* of the dividend is that of the number these bits spell.
DivideBits(n, places, d) ==
    LET bits == ToBits(n)
        len == Len(bits)
        rem(i) == IF i <= len THEN (n \div 2^(len - i)) % d
                  ELSE ((n % d) * PowerOfTwoMod(i - len, d)) % d
    IN [quot |-> [i \in 1..(len + places) |->
                    IF 2 * rem(i - 1) + (IF i <= len THEN bits[i] ELSE 0) >= d
                    THEN 1 ELSE 0],
        rem |-> rem(len + places)]

\* the number JavaScript reads from the decimal text of a DECIMAL(12,2)
\* value, given in hundredths
NumberFromDecimal(hundredths) ==
    LET mag == IF hundredths < 0 THEN 0 - hundredths ELSE hundredths
        d == DivideBits(mag, FractionBits, 100)
    IN RoundToNearestEven(hundredths < 0, d.quot, d.rem # 0, 0 - FractionBits)

\* a + b on bit sequences of equal length, one bit longer: the carry into
\* a position is generated at a lower position where both bits are 1 and
\* passed on through positions where exactly one bit is 1
CarryInto(a, b, i) ==
    IF \E j \in (i + 1)..Len(a) :
          /\ a[j] + b[j] = 2
          /\ \A k \in (i + 1)..(j - 1) : a[k] + b[k] = 1
    THEN 1 ELSE 0

AddBits(a, b) ==
    [i \in 1..(Len(a) + 1) |->
        IF i = 1 THEN CarryInto(a, b, 0)
        ELSE (a[i - 1] + b[i - 1] + CarryInto(a, b, i - 1)) % 2]

\* a - b on bit sequences of equal length, for a >= b
BorrowInto(a, b, i) ==
    IF \E j \in (i + 1)..Len(a) :
          /\ a[j] < b[j]
          /\ \A k \in (i + 1)..(j - 1) : a[k] = b[k]
    THEN 1 ELSE 0

SubBits(a, b) ==
    [i \in 1..Len(a) |-> (2 + a[i] - b[i] - BorrowInto(a, b, i)) % 2]

LessBits(a, b) ==
    \E i \in 1..Len(a) : a[i] < b[i] /\ \A j \in 1..(i - 1) : a[j] = b[j]

\* a + b of two numbers
FloatAdd(a, b) ==
    IF a.sig = <<>> THEN b
    ELSE IF b.sig = <<>> THEN a
    ELSE LET e == IF a.exp < b.exp THEN a.exp ELSE b.exp
             x == a.sig \o Zeros(a.exp - e)
             y == b.sig \o Zeros(b.exp - e)
             n == IF Len(x) < Len(y) THEN Len(y) ELSE Len(x)
             xs == Zeros(n - Len(x)) \o x
             ys == Zeros(n - Len(y)) \o y
         IN IF a.neg = b.neg
            THEN RoundToNearestEven(a.neg, AddBits(xs, ys), FALSE, e)
            ELSE IF xs = ys THEN FloatZero
            ELSE IF LessBits(xs, ys)
            THEN RoundToNearestEven(b.neg, SubBits(ys, xs), FALSE, e)
            ELSE RoundToNearestEven(a.neg, SubBits(xs, ys), FALSE, e)

\* a - b
FloatSub(a, b) ==
    FloatAdd(a, IF b.sig = <<>> THEN b ELSE [b EXCEPT !.neg = ~b.neg])

\* the record returned on the failure paths
ZeroStatistics ==
    [total_ingresos |-> FloatZero, total_egresos |-> FloatZero,
     balance |-> FloatZero, cantidad_ingresos |-> 0, cantidad_egresos |-> 0,
     total_movimientos |-> 0]

\* SUM(CASE WHEN tipo = kind THEN monto ELSE 0 END) in hundredths, exact
RECURSIVE SumOf(_, _)
SumOf(table, kind) ==
    IF table = <<>> THEN 0
    ELSE (IF Head(table).tipo = kind THEN Head(table).monto ELSE 0)
         + SumOf(Tail(table), kind)

CountOf(table, kind) ==
    Cardinality({i \in 1..Len(table) : table[i].tipo = kind})

\* the row of the view daviplata_estadisticas as the client reads it
ViewStatistics(table) ==
    [total_ingresos |-> NumberFromDecimal(SumOf(table, "INGRESO")),
     total_egresos |-> NumberFromDecimal(SumOf(table, "EGRESO")),
     balance |-> NumberFromDecimal(SumOf(table, "INGRESO")
                                   - SumOf(table, "EGRESO")),
     cantidad_ingresos |-> CountOf(table, "INGRESO"),
     cantidad_egresos |-> CountOf(table, "EGRESO"),
     total_movimientos |-> Len(table)]

\* movements.reduce(...) of the fallback, from the accumulator acc
RECURSIVE Reduce(_, _)
Reduce(movements, acc) ==
    IF movements = <<>> THEN acc
    ELSE LET mov == Head(movements)
             monto == NumberFromDecimal(mov.monto)
         IN Reduce(Tail(movements),
                   IF mov.tipo = "INGRESO"
                   THEN [acc EXCEPT
                           !.total_ingresos = FloatAdd(@, monto),
                           !.cantidad_ingresos = @ + 1]
                   ELSE [acc EXCEPT
                           !.total_egresos = FloatAdd(@, monto),
                           !.cantidad_egresos = @ + 1])

FallbackStatistics(movements) ==
    LET stats == Reduce(movements,
                        [total_ingresos |-> FloatZero,
                         total_egresos |-> FloatZero,
                         cantidad_ingresos |-> 0, cantidad_egresos |-> 0])
    IN [total_ingresos |-> stats.total_ingresos,
        total_egresos |-> stats.total_egresos,
        balance |-> FloatSub(stats.total_ingresos, stats.total_egresos),
        cantidad_ingresos |-> stats.cantidad_ingresos,
        cantidad_egresos |-> stats.cantidad_egresos,
        total_movimientos |-> Len(movements)]

\* what the calls of getStatistics can yield: whether there is a client,
\* whether the view answers, and whether the query of the table answers,
\* answers with an error, or throws
StatOutcomes ==
    [client : BOOLEAN, view : {"ok", "error"},
     query : {"ok", "error", "throws"}]

\* getStatistics()
getStatistics(table, o) ==
    IF ~o.client THEN [path |-> "noClient", stats |-> ZeroStatistics]
    ELSE IF o.view = "ok"
    THEN [path |-> "view", stats |-> ViewStatistics(table)]
    ELSE IF o.query = "error"
    THEN [path |-> "queryError", stats |-> ZeroStatistics]
    ELSE IF o.query = "throws"
    THEN [path |-> "exception", stats |-> ZeroStatistics]
    ELSE [path |-> "fallback", stats |-> FallbackStatistics(table)]

StatMontos == {10, 20, 30}
StatRows == [tipo : {"INGRESO", "EGRESO"}, monto : StatMontos]
StatTables == UNION {[1..n -> StatRows] : n \in 0..MaxStatRows}

InitStats ==
    /\ IdleQuery
    /\ IdleAuth
    /\ ledger \in StatTables
    /\ now = 0 /\ ticks = 0
    /\ AppState = <<>> /\ dbConfig = <<>> /\ verifySent = <<>>
    /\ lastOp = <<>>
    /\ opCount = 0

GetStatistics ==
    /\ opCount = 0
    /\ \E o \in StatOutcomes :
          lastOp' = getStatistics(ledger, o)
    /\ opCount' = 1
    /\ UNCHANGED <<ledger, now, ticks, AppState, dbConfig, verifySent>>
    /\ UNCHANGED qvars
    /\ UNCHANGED avars

NextStats == GetStatistics

SpecStats == InitStats /\ [][NextStats]_vars

\* ========================================================================
\* Specification SpecImage: compressImage(file) over files, configurations,
\* decoded image sizes and the outcomes of the browser's reader, decoder
\* and encoder.
\* ========================================================================
DefaultMaxSide == 1200
CompressThreshold == 100 * 1024

\* Math.round of the quotient a / b of positive integers: the nearest
\* integer, halves upwards.  The quotient computed in binary64 is never
\* rounded onto a half it does not have, its distance from one being at
\* least 1 / (2 * b).
MathRound(a, b) == (2 * a + b) \div (2 * b)

\* CONFIG.IMAGE_MAX_WIDTH || 1200
OrDefault(configured) ==
    IF configured = 0 THEN DefaultMaxSide ELSE configured

\* a resize that fits the width only
ResizeWidthOnly(width, height, maxWidth, maxHeight) ==
    IF width > maxWidth
    THEN [width |-> maxWidth, height |-> MathRound(height * maxWidth, width)]
    ELSE [width |-> width, height |-> height]

\* the canvas size: the width is fitted first, then the height of the
\* result
Resize(width, height, maxWidth, maxHeight) ==
    LET first == IF width > maxWidth
                 THEN [width |-> maxWidth,
                       height |-> MathRound(height * maxWidth, width)]
                 ELSE [width |-> width, height |-> height]
    IN IF first.height > maxHeight
       THEN [width |-> MathRound(first.width * maxHeight, first.height),
             height |-> maxHeight]
       ELSE first

NoCanvas == [width |-> -1, height |-> -1]
NoBlob == [kind |-> "null", size |-> 0]
Blob(size) == [kind |-> "blob", size |-> size]
File(isImage, size) == [kind |-> "file", isImage |-> isImage, size |-> size]

\* files around the size below which an image is not compressed
Files ==
    {File(i, n) : i \in BOOLEAN,
                  n \in {CompressThreshold - 1, CompressThreshold,
                         CompressThreshold + 1}}

ConfigSides == {0, IMAGE_MAX_WIDTH, IMAGE_MAX_HEIGHT} \cup 1..MaxSide
ImageSides ==
    1..(2 * MaxSide + 2)
        \cup {DefaultMaxSide - 1, DefaultMaxSide, DefaultMaxSide + 1,
              2 * DefaultMaxSide, 2 * DefaultMaxSide + 1}

\* what the browser does with the file: the reader loads it or fails, the
\* decoder yields an image of some size or fails, and the encoder yields a
\* blob, of a size around the file's, or null
ImageOutcomes ==
    [readOk : BOOLEAN, decodeOk : BOOLEAN,
     width : ImageSides, height : ImageSides,
     encoded : {"null", "smaller", "equal", "larger"}]

\* canvas.toBlob: null for a canvas without pixels
ToBlob(canvas, file, encoded) ==
    IF canvas.width = 0 \/ canvas.height = 0 \/ encoded = "null" THEN NoBlob
    ELSE IF encoded = "smaller" THEN Blob(file.size - 1)
    ELSE IF encoded = "equal" THEN Blob(file.size)
    ELSE Blob(file.size + 1)

\* compressImage(file): how the promise is settled and with which value,
\* and the canvas that was encoded, if one was
compressImage(file, config, o) ==
    IF ~file.isImage \/ file.size < CompressThreshold
    THEN [settled |-> "resolved", value |-> file, canvas |-> NoCanvas]
    ELSE IF ~o.readOk \/ ~o.decodeOk
    THEN [settled |-> "resolved", value |-> file, canvas |-> NoCanvas]
    ELSE LET canvas == Resize(o.width, o.height,
                              OrDefault(config.IMAGE_MAX_WIDTH),
                              OrDefault(config.IMAGE_MAX_HEIGHT))
             blob == ToBlob(canvas, file, o.encoded)
         IN [settled |-> "resolved",
             value |-> IF blob # NoBlob /\ blob.size < file.size
                       THEN blob ELSE file,
             canvas |-> canvas]

InitImage ==
    /\ IdleQuery
    /\ IdleAuth
    /\ ledger = <<>> /\ now = 0 /\ ticks = 0
    /\ AppState = <<>> /\ verifySent = <<>>
    /\ dbConfig \in [IMAGE_MAX_WIDTH : ConfigSides,
                      IMAGE_MAX_HEIGHT : ConfigSides]
    /\ lastOp = <<>>
    /\ opCount = 0

\* a call of compressImage; the record keeps the file and what the browser
\* did as far as the call got
CompressImage ==
    /\ opCount = 0
    /\ \E file \in Files :
       \E o \in ImageOutcomes :
          LET run == compressImage(file, dbConfig, o)
              decoded == run.canvas # NoCanvas
          IN lastOp' = [file |-> file,
                        readOk |-> IF file.isImage
                                      /\ file.size >= CompressThreshold
                                   THEN o.readOk ELSE TRUE,
                        decodeOk |-> IF decoded THEN TRUE
                                     ELSE IF file.isImage /\ o.readOk
                                             /\ file.size >= CompressThreshold
                                     THEN FALSE ELSE TRUE,
                        width |-> IF decoded THEN o.width ELSE 0,
                        height |-> IF decoded THEN o.height ELSE 0,
                        blob |-> IF decoded
                                 THEN ToBlob(run.canvas, file, o.encoded)
                                 ELSE NoBlob,
                        settled |-> run.settled,
                        value |-> run.value,
                        canvas |-> run.canvas]
    /\ opCount' = 1
    /\ UNCHANGED <<ledger, now, ticks, AppState, dbConfig, verifySent>>
    /\ UNCHANGED qvars
    /\ UNCHANGED avars

NextImage == CompressImage

SpecImage == InitImage /\ [][NextImage]_vars

\* ========================================================================
\* Properties of canEditMovement (specification SpecEdit)
\* ========================================================================
Evaluated == qAt >= 0

WindowTicks == EDIT_WINDOW_MINUTES * TicksPerMinute

\* the movement handed in is an entry of a non-empty collection
QInCollection ==
    /\ qMovement # NULL
    /\ qAll # NULL
    /\ \E i \in 1..Len(qAll.items) : qAll.items[i] = qMovement

\* some entry of the collection was created after the movement
QNewerExists ==
    \E i \in 1..Len(qAll.items) :
        qAll.items[i].created_at > qMovement.created_at

\* every other entry of the collection was created before the movement
QStrictlyLatest ==
    /\ QInCollection
    /\ \A i \in 1..Len(qAll.items) :
          qAll.items[i].id # qMovement.id
              => qAll.items[i].created_at < qMovement.created_at

\* ticks between the creation of the movement and the evaluation
QElapsed == qAt - qMovement.created_at

\* C2: a movement of the collection that is not the entry with the greatest
\* created_at is not editable, with the "only the most recent movement"
\* reason, whatever its age.
C2_NotLatestNotEditable ==
    (Evaluated /\ QInCollection /\ QNewerExists)
        => qResult = [canEdit |-> FALSE, reason |-> ReasonNotLatest]

\* C2 witness: an older entry of the collection, under 30 minutes old, was
\* evaluated and refused for not being the most recent.
C2_Witness ==
    /\ Evaluated /\ QInCollection /\ QNewerExists
    /\ QElapsed >= 0 /\ QElapsed < WindowTicks
    /\ qResult.reason = ReasonNotLatest

C4_ExpiredNotEditable ==
    (Evaluated /\ qMovement # NULL /\ QElapsed > WindowTicks)
        => /\ ~qResult.canEdit
           /\ QStrictlyLatest => qResult.reason = ReasonExpired

\* C4 witness: the latest movement evaluated half a minute after the window
\* closed.
C4_Witness ==
    /\ Evaluated /\ QStrictlyLatest /\ QElapsed = WindowTicks + 1
    /\ qResult = [canEdit |-> FALSE, reason |-> ReasonExpired]

\* C5: the count in the reason of an editable movement is
\* ceil(30 - elapsedMinutes), i.e. the least whole number of minutes that
\* covers the rest of the window (20 for a movement created 10 minutes ago);
\* the word is singular exactly when the count is 1.
C5_RemainingIsCeiling ==
    (Evaluated /\ qResult.canEdit)
        => /\ qResult.reason.count * TicksPerMinute >= WindowTicks - QElapsed
           /\ (qResult.reason.count - 1) * TicksPerMinute
                  < WindowTicks - QElapsed
           /\ QElapsed = 10 * TicksPerMinute => qResult.reason.count = 20
           /\ qResult.reason.unit = "minuto" <=> qResult.reason.count = 1
           /\ qResult.reason.unit \in {"minuto", "minutos"}

\* C5 witness: half a minute of the window is left, reported as 1 minute in
\* the singular.
C5_Witness ==
    /\ Evaluated /\ qResult.canEdit
    /\ QElapsed = WindowTicks - 1
    /\ qResult.reason.count = 1 /\ qResult.reason.unit = "minuto"

QForeignId ==
    /\ qMovement # NULL /\ qAll # NULL /\ Len(qAll.items) > 0
    /\ \A i \in 1..Len(qAll.items) : qAll.items[i].id # qMovement.id

QNothingToCheck ==
    \/ qMovement = NULL
    \/ qAll = NULL
    \/ Len(qAll.items) = 0

\* C7 as stated: null movement, null or empty collection, or an id that
\* does not occur in the collection all give the "not found" reason.
C7_Original ==
    (Evaluated /\ (QNothingToCheck \/ QForeignId))
        => qResult = [canEdit |-> FALSE, reason |-> ReasonNotFound]

\* C7 amended: null movement and null or empty collection give canEdit =
\* false with the "not found" reason; an id that does not occur in a
\* non-empty collection gives canEdit = false with the "only the most recent
\* movement" reason.
C7_NotFoundOrNotLatest ==
    /\ (Evaluated /\ QNothingToCheck)
          => qResult = [canEdit |-> FALSE, reason |-> ReasonNotFound]
    /\ (Evaluated /\ QForeignId)
          => qResult = [canEdit |-> FALSE, reason |-> ReasonNotLatest]

\* C7 witness: a movement whose id is not in the one-entry collection was
\* evaluated and refused as not the most recent.
C7_Witness ==
    /\ Evaluated /\ QForeignId /\ Len(qAll.items) = 1
    /\ qResult = [canEdit |-> FALSE, reason |-> ReasonNotLatest]

\* ========================================================================
\* Properties of the ledger (specification Spec)
\* ========================================================================

\* this step is a run of a handler that ended in success
OkRun(op) ==
    /\ opCount' = opCount + 1
    /\ lastOp'.op = op
    /\ lastOp'.result = "ok"

\* no other row of the table was created after row id
LatestInLedger(id) ==
    \A j \in 1..Len(ledger) : ledger[j].created_at <= ledger[id].created_at

\* C1: an edit is committed only while the movement is, at the commit, the
\* most recently created movement of the whole ledger and inside the
\* 30-minute window (the boundary itself is let through here).
C1_EditOnlyLatestInWindow ==
    [][OkRun("edit") =>
          /\ LatestInLedger(lastOp'.id)
          /\ now - ledger[lastOp'.id].created_at <= WindowTicks]_vars

\* C8: a movement inserted through the form is stored VERIFICADO when its
\* creator is an admin and PENDIENTE when not.
C8_CreatedStateFollowsPrivilege ==
    (lastOp.op = "create" /\ lastOp.result = "ok")
        => ledger[lastOp.id].verified = VerifiedFor(lastOp.admin)

HasReferences(row) == row.idmessage # NoValue /\ row.remote_jid # NoValue

\* C9: when an admin confirms the verification of a PENDIENTE movement and
\* the update succeeds, the movement is stored VERIFICADO afterwards and
\* (for a movement that carries its message references) the verification
\* notification is dispatched exactly once.
C9_VerifyStoresVerificado ==
    [][(/\ OkRun("verify")
        /\ lastOp'.admin
        /\ ledger[lastOp'.id].verified = "PENDIENTE")
          => /\ ledger'[lastOp'.id].verified = "VERIFICADO"
             /\ HasReferences(ledger[lastOp'.id]) => lastOp'.sent = 1]_vars

\* C10: verification is idempotent: a run started from the verify button on
\* a movement keeps a VERIFICADO movement VERIFICADO, and over all runs the
\* verification notification of a movement is dispatched at most once.
C10_VerifyIdempotent ==
    [][(OkRun("verify") /\ lastOp'.offered)
          => /\ ledger[lastOp'.id].verified = "VERIFICADO"
                   => ledger'[lastOp'.id].verified = "VERIFICADO"
             /\ verifySent'[lastOp'.id] <= 1]_vars

\* a step is a run of handleVerifyMovement
VerifyRun == opCount' = opCount + 1 /\ lastOp'.op = "verify"

\* the run issued the collaborator call of this name
Issued(op, name) ==
    \E i \in 1..Len(op.effects) : op.effects[i].call = name

\* C11: a run of handleVerifyMovement in a session that is not an
\* administrator performs no persistence update, changes no movement and
\* sends no verification notification.
C11_NonAdminVerifyRefused ==
    [][(VerifyRun /\ ~lastOp'.admin) =>
          /\ ~Issued(lastOp', "updateMovement")
          /\ ~Issued(lastOp', "verificationHook")
          /\ lastOp'.sent = 0
          /\ ledger' = ledger]_vars

\* the rows of the table other than row id are the same after the step
OthersUnchanged(id) ==
    /\ Len(ledger') = Len(ledger)
    /\ \A i \in 1..Len(ledger) : i # id => ledger'[i] = ledger[i]

\* C12: a run of handleVerifyMovement leaves every column of the movement
\* other than its verification state, and every other movement, unchanged.
C12_VerifyTouchesOnlyState ==
    [][VerifyRun =>
          /\ OthersUnchanged(lastOp'.id)
          /\ lastOp'.id \in 1..Len(ledger) =>
                \A f \in DOMAIN ledger[lastOp'.id] \ {"verified"} :
                    ledger'[lastOp'.id][f] = ledger[lastOp'.id][f]]_vars

\* a verification went through on a table of several movements
C12_Witness ==
    /\ lastOp.op = "verify"
    /\ lastOp.result = "ok"
    /\ Len(ledger) >= 2
    /\ ledger[lastOp.id].usuario_id = AppState.userProfile.id

\* a step is a run of the edit branch of handleFormSubmit
EditRun == opCount' = opCount + 1 /\ lastOp'.op = "edit"

C14_TipoImmutable ==
    [][\A i \in 1..Len(ledger) : ledger'[i].tipo = ledger[i].tipo]_vars

\* an edit went through while the form had the other type option active
C14_Witness ==
    /\ lastOp.op = "edit"
    /\ lastOp.result = "ok"
    /\ lastOp.tipo # ledger[lastOp.id].tipo
    /\ ledger[lastOp.id].monto = Decimal2(parseFloat("2").value)

\* C15: every stored movement has an amount above zero, and a run of
\* handleFormSubmit that reaches createMovement or updateMovement does so
\* with a number above zero, when it creates and when it edits.
C15_AmountPositive ==
    /\ \A i \in 1..Len(ledger) : ledger[i].monto > 0
    /\ (/\ lastOp.op \in {"create", "edit"}
        /\ (Issued(lastOp, "insert") \/ Issued(lastOp, "updateMovement")))
          => (~lastOp.monto.nan /\ lastOp.monto.value > 0)

\* a movement was created from a form with a valid amount
C15_Witness ==
    /\ lastOp.op = "create"
    /\ lastOp.result = "ok"
    /\ lastOp.monto = parseFloat("2")
    /\ ledger[lastOp.id].monto = Decimal2(lastOp.monto.value)

\* the ids of the stored movements
StoredIds(table) == {table[i].id : i \in 1..Len(table)}

\* C16: no handler removes a movement: the set of stored ids only grows,
\* and a stored movement keeps its id and its owner.
C16_NeverRemoved ==
    [][/\ StoredIds(ledger) \subseteq StoredIds(ledger')
       /\ Len(ledger') >= Len(ledger)
       /\ \A i \in 1..Len(ledger) :
             /\ ledger'[i].id = ledger[i].id
             /\ ledger'[i].usuario_id = ledger[i].usuario_id]_vars

\* a movement was added to a table that held others, which are still there
C16_Witness ==
    /\ lastOp.op = "create"
    /\ lastOp.result = "ok"
    /\ lastOp.id = Len(ledger)
    /\ StoredIds(ledger) = 1..Len(ledger)
    /\ Len(ledger) >= 2

\* where in the record of a run the first call of this name is
Position(op, name) ==
    CHOOSE i \in 1..Len(op.effects) :
        /\ op.effects[i].call = name
        /\ \A j \in 1..(i - 1) : op.effects[j].call # name

\* C17: in an edit submission the retraction request, when one is made, has
\* finished before the update is issued, and the notification of the new
\* state is issued only after the update has returned the row; a movement
\* read with both references gets its retraction request.
C17_EditOrder ==
    (lastOp.op = "edit" /\ Issued(lastOp, "updateMovement")) =>
        /\ Issued(lastOp, "deletionHook") =>
              Position(lastOp, "deletionHook")
                  < Position(lastOp, "updateMovement")
        /\ Issued(lastOp, "movementHook") =>
              /\ Position(lastOp, "updateMovement")
                    < Position(lastOp, "movementHook")
              /\ lastOp.effects[Position(lastOp, "updateMovement")].outcome
                    = "ok"
        /\ (/\ HasReferences(ledger[lastOp.id])
            /\ lastOp.effects[Position(lastOp, "getMovementById")].outcome
                  = "ok")
              => Issued(lastOp, "deletionHook")

\* an edit of a notified movement made all three requests
C17_Witness ==
    /\ lastOp.op = "edit"
    /\ lastOp.result = "ok"
    /\ HasReferences(ledger[lastOp.id])
    /\ Issued(lastOp, "deletionHook")
    /\ Issued(lastOp, "updateMovement")
    /\ Issued(lastOp, "movementHook")

\* the record of a run with the outcome of its retraction request left out
WithoutRetractionOutcome(effects) ==
    [i \in 1..Len(effects) |->
        IF effects[i].call = "deletionHook"
        THEN Call("deletionHook", "ok")
        ELSE effects[i]]

\* the retraction request of the run failed
RetractionFailed(op) ==
    \E i \in 1..Len(op.effects) :
        op.effects[i] = Call("deletionHook", "failed")

\* C18: an edit whose retraction request fails goes on as the same edit
\* whose retraction succeeds: the same update is issued and the table is
\* left as that run leaves it.
C18_RetractionFailureIgnored ==
    [][(EditRun /\ RetractionFailed(lastOp')) =>
          /\ Issued(lastOp', "updateMovement")
          /\ \E motivo \in FormMotivos :
             \E o \in {x \in SubmitOutcomes : x.delOk} :
                LET run == SubmitOutcome(AppState, lastOp'.tipo,
                                         lastOp'.monto, motivo, o)
                IN /\ run.table = ledger'
                   /\ run.op.result = lastOp'.result
                   /\ run.op.effects
                         = WithoutRetractionOutcome(lastOp'.effects)]_vars

\* an edit was stored although its retraction request had failed
C18_Witness ==
    /\ lastOp.op = "edit"
    /\ lastOp.result = "ok"
    /\ RetractionFailed(lastOp)
    /\ ledger[lastOp.id].monto = Decimal2(lastOp.monto.value)
    /\ ledger[lastOp.id].motivo \in FormMotivos

\* C19: after a create or an edit that went through, the notification of
\* the new state has been sent, and when it was answered with identifiers
\* the stored movement carries them.
C19_IdentifiersPersisted ==
    (lastOp.op \in {"create", "edit"} /\ lastOp.result = "ok") =>
        /\ Issued(lastOp, "movementHook")
        /\ Issued(lastOp, "writeBack") =>
              /\ ledger[lastOp.id].idmessage = HookMessageId
              /\ ledger[lastOp.id].remote_jid = HookRemoteJid

\* the run showed the toast of this kind
Told(op, kind) == \E i \in 1..Len(op.effects) : op.effects[i] = Toast(kind)

\* C20: a run of handleVerifyMovement sends the verification notification
\* only for a movement fetched with both references; for one fetched
\* without either of them the update is still issued, no notification is
\* sent, and once the update has gone through the user is told that the
\* notification was skipped.
C20_NotifyOnlyWithReferences ==
    lastOp.op = "verify" =>
        /\ (Issued(lastOp, "verificationHook") \/ lastOp.sent > 0) =>
              HasReferences(ledger[lastOp.id])
        /\ (/\ Issued(lastOp, "getMovementById")
            /\ lastOp.effects[Position(lastOp, "getMovementById")].outcome
                  = "ok"
            /\ ~HasReferences(ledger[lastOp.id])) =>
              /\ Issued(lastOp, "updateMovement")
              /\ ~Issued(lastOp, "verificationHook")
              /\ lastOp.sent = 0
              /\ lastOp.result = "ok" =>
                    Told(lastOp, "warning-sin-notificacion")

\* a movement with a message identifier but no recipient was verified
C20_Witness ==
    /\ lastOp.op = "verify"
    /\ lastOp.result = "ok"
    /\ ledger[lastOp.id].idmessage # NoValue
    /\ ledger[lastOp.id].remote_jid = NoValue
    /\ Told(lastOp, "warning-sin-notificacion")

\* how many calls of this name the run made, and whether one of them failed
Times(op, name) ==
    Cardinality({i \in 1..Len(op.effects) : op.effects[i].call = name})
Failed(op, name) ==
    \E i \in 1..Len(op.effects) : op.effects[i] = Call(name, "failed")

\* C21: a notification request that fails does not reach the caller and
\* does not undo or prevent the operation: the created movement is stored
\* and reported, the edit is stored and reported, the verification reports
\* success, the edit goes on after a failed retraction; and one run makes
\* each kind of notification request at most once.
C21_NotificationFailureSwallowed ==
    /\ \A name \in {"movementHook", "verificationHook", "deletionHook"} :
          Times(lastOp, name) <= 1
    /\ Failed(lastOp, "movementHook") =>
          /\ lastOp.result = "ok"
          /\ lastOp.id \in 1..Len(ledger)
          /\ ledger[lastOp.id].monto = Decimal2(lastOp.monto.value)
          /\ Told(lastOp, "success") \/ Told(lastOp, "success-pendiente")
    /\ Failed(lastOp, "verificationHook") =>
          /\ lastOp.result = "ok"
          /\ Told(lastOp, "success")
    /\ Failed(lastOp, "deletionHook") =>
          /\ Issued(lastOp, "updateMovement")
          /\ ~Failed(lastOp, "updateMovement") => lastOp.result = "ok"

\* a movement was stored although its notification request had failed
C21_Witness ==
    /\ lastOp.op = "create"
    /\ lastOp.result = "ok"
    /\ Failed(lastOp, "movementHook")
    /\ lastOp.id = Len(ledger)

\* a step is a run of handleFormSubmit
SubmitRun ==
    opCount' = opCount + 1 /\ lastOp'.op \in {"submit", "create", "edit"}

\* C22: a submission without a type, with EGRESO in a session that is not
\* an administrator, with an amount that is missing, not a number or not
\* above zero, or with an empty reason shows an error and does nothing
\* else; and no step adds an EGRESO movement of a user who is not an
\* administrator.
C22_InvalidFormBlocked ==
    [][/\ (/\ SubmitRun
           /\ \/ lastOp'.tipo = NoValue
              \/ (lastOp'.tipo = "EGRESO" /\ ~lastOp'.admin)
              \/ lastOp'.monto.nan
              \/ lastOp'.monto.value <= 0
              \/ lastOp'.motivo = "") =>
             /\ lastOp'.result = "blocked"
             /\ lastOp'.effects = <<Toast("error")>>
             /\ ledger' = ledger
       /\ \A i \in (Len(ledger) + 1)..Len(ledger') :
             ledger'[i].tipo = "EGRESO" =>
                Profile(ledger'[i].usuario_id).rol = "admin"]_vars

\* a plain user submitted an expense and was refused
C22_Witness ==
    /\ lastOp.result = "blocked"
    /\ lastOp.tipo = "EGRESO"
    /\ ~lastOp.admin
    /\ lastOp.effects = <<Toast("error")>>

\* C23: when the receipt upload of a submission fails, no insert, update or
\* notification of any kind follows; when the insert or the update fails,
\* no notification of the new state follows and no success is shown; in
\* both cases the table is left as it was.
C23_FailureBlocks ==
    [][SubmitRun =>
          /\ Failed(lastOp', "upload") =>
                /\ \A name \in {"insert", "updateMovement", "movementHook",
                                 "deletionHook", "writeBack"} :
                      ~Issued(lastOp', name)
                /\ ~Told(lastOp', "success")
                /\ ~Told(lastOp', "success-pendiente")
                /\ Told(lastOp', "error")
                /\ ledger' = ledger
          /\ (Failed(lastOp', "insert") \/ Failed(lastOp', "updateMovement"))
                =>
                /\ ~Issued(lastOp', "movementHook")
                /\ ~Issued(lastOp', "writeBack")
                /\ ~Told(lastOp', "success")
                /\ ~Told(lastOp', "success-pendiente")
                /\ lastOp'.result = "failed"
                /\ ledger' = ledger]_vars

\* the upload of the receipt of an edit failed
C23_Witness ==
    /\ lastOp.op = "edit"
    /\ lastOp.result = "failed"
    /\ Failed(lastOp, "upload")
    /\ HasReferences(ledger[lastOp.id])

\* C24: the edit form is opened only on a movement of the session's own
\* user, and an edit that went through was made by the owner of the
\* movement.
C24_EditOnlyByOwner ==
    /\ AppState.editingMovementId # 0 =>
          ledger[AppState.editingMovementId].usuario_id
              = AppState.userProfile.id
    /\ (lastOp.op = "edit" /\ lastOp.result = "ok") =>
          Profile(ledger[lastOp.id].usuario_id).rol = "admin" <=> lastOp.admin

\* the entries of the collection that canEditMovement reports editable now
EditableNow ==
    {i \in 1..Len(qAll.items) :
        canEditMovement(qAll.items[i], qAll, qNow).canEdit}

\* C25: in a collection with pairwise distinct ids, at any time,
\* canEditMovement reports at most one movement editable, also when several
\* movements share the greatest created_at.
C25_AtMostOneEditable ==
    qAll # NULL => Cardinality(EditableNow) <= 1

\* one of two movements created at the same time was reported editable
C25_Witness ==
    /\ Evaluated
    /\ qResult.canEdit
    /\ qAll # NULL
    /\ Len(qAll.items) = 2
    /\ qAll.items[1].created_at = qAll.items[2].created_at
    /\ Cardinality(EditableNow) = 1

\* AppState.movements is what getMovements returns for the table as it is
Refreshed(st, table) == st.movements \in GetMovementsResults(table)

\* canEditMovement reports movement id of the dashboard editable at this time
EditableIn(st, at, id) ==
    LET movement == FindMovement(st.movements, id) IN
    /\ movement # NULL
    /\ canEditMovement(movement, Arr(st.movements), at).canEdit

\* C26: while time advances and the table only receives new movements, a
\* movement that canEditMovement reports not editable against the refreshed
\* dashboard is not reported editable against the next refreshed dashboard.
C26_EditabilityNotRegained ==
    [][(Refreshed(AppState, ledger) /\ Refreshed(AppState', ledger')) =>
          \A id \in 1..Len(ledger) :
              ~EditableIn(AppState, now, id) =>
                  ~EditableIn(AppState', now', id)]_vars

\* C27: AppState.isAdmin is true only while AppState.session is set and
\* AppState.userProfile is a profile whose rol is admin, under every
\* interleaving of the sign-in handler, its profile fetch, the sign-out
\* event and the logout handler.
C27_AdminOnlyWithSession ==
    AppState.isAdmin =>
        /\ AppState.session # NULL
        /\ AppState.userProfile # NULL
        /\ AppState.userProfile.rol = "admin"

\* C28: an edit submitted without a newly selected file leaves the receipt
\* reference of every movement as it was; a receipt reference changes only
\* in an edit of that movement with a selected file whose upload
\* succeeded, and it becomes the URL the upload returned.
C28_ReceiptKeptWithoutFile ==
    [][\A i \in 1..Len(ledger) :
          /\ (EditRun /\ AppState.selectedFile = NoValue) =>
                ledger'[i].comprobante_url = ledger[i].comprobante_url
          /\ ledger'[i].comprobante_url # ledger[i].comprobante_url =>
                /\ EditRun
                /\ lastOp'.id = i
                /\ AppState.selectedFile # NoValue
                /\ \E k \in 1..Len(lastOp'.effects) :
                      lastOp'.effects[k] = Call("upload", "ok")
                /\ ledger'[i].comprobante_url = UploadUrls[opCount + 1]]_vars

C28_Witness ==
    /\ lastOp.op = "edit"
    /\ lastOp.result = "ok"
    /\ ~Issued(lastOp, "upload")
    /\ ledger[lastOp.id].motivo = "b"
    /\ ledger[lastOp.id].comprobante_url = EarlierReceipt

\* C29: the fallback of getStatistics returns the statistics the view
\* daviplata_estadisticas returns for the same table: the per-kind sums,
\* their difference as balance, and counts that add up to the number of
\* movements; and every failure path returns the all-zero record.
C29_FallbackMatchesView ==
    opCount = 1 =>
        /\ lastOp.path = "fallback" =>
              /\ lastOp.stats = ViewStatistics(ledger)
              /\ lastOp.stats.cantidad_ingresos
                    + lastOp.stats.cantidad_egresos
                  = lastOp.stats.total_movimientos
              /\ lastOp.stats.total_movimientos = Len(ledger)
        /\ lastOp.path \in {"noClient", "queryError", "exception"} =>
              lastOp.stats = ZeroStatistics

\* C30: compressImage resolves, with a value no larger than the file; the
\* value is the file itself when the file is not an image, is smaller than
\* 100 KB, could not be read, decoded or encoded, or was encoded to a blob
\* that is not strictly smaller; and the canvas it encodes is no wider than
\* the configured maximum width and no higher than the configured maximum
\* height.
C30_CompressImageSafe ==
    opCount = 1 =>
        /\ lastOp.settled = "resolved"
        /\ lastOp.value.size <= lastOp.file.size
        /\ (\/ ~lastOp.file.isImage
            \/ lastOp.file.size < CompressThreshold
            \/ ~lastOp.readOk
            \/ ~lastOp.decodeOk
            \/ lastOp.blob = NoBlob
            \/ lastOp.blob.size >= lastOp.file.size) =>
              lastOp.value = lastOp.file
        /\ lastOp.canvas # NoCanvas =>
              /\ lastOp.canvas.width <= OrDefault(dbConfig.IMAGE_MAX_WIDTH)
              /\ lastOp.canvas.height <= OrDefault(dbConfig.IMAGE_MAX_HEIGHT)

C30_Witness ==
    /\ opCount = 1
    /\ lastOp.width > OrDefault(dbConfig.IMAGE_MAX_WIDTH)
    /\ lastOp.canvas.width < OrDefault(dbConfig.IMAGE_MAX_WIDTH)
    /\ lastOp.canvas.height = OrDefault(dbConfig.IMAGE_MAX_HEIGHT)
    /\ lastOp.value.kind = "blob"
    /\ lastOp.value.size < lastOp.file.size

====
